---- MODULE Spec2Model ----
(***************************************************************************)
(* RF_tutorial.ipynb: a notebook that loads a CSV of climate observations, *)
(* splits it, fits a random forest, scores it, ranks the predictors and    *)
(* repeats split/fit/score over a sequence of seeds.  The kernel's global  *)
(* names are the state; one action per statement group of a cell.          *)
(***************************************************************************)
EXTENDS Integers, Sequences, FiniteSets, TLC

VARIABLES
    pc,                 \* the next statement group a top-to-bottom run executes
    file,               \* the CSV on disk: [kind, columns, rows]
    np_random,          \* numpy's global RandomState (np.random.mtrand._rand)
    learner,            \* which member of the library's learner family fit() is
    data,               \* DataFrame `data`
    X, y,               \* predictors frame, target series
    X_train, X_test, y_train, y_test,
    clf,                \* the global name clf
    y_pred,
    drought_probabilities,
    entries,            \* the FloatText widgets in creation order, each with the
                        \* predictor its label names and its value
    result_label,
    label_model,        \* history: hyperparameters of the model the label came from
    metrics3c,          \* accuracy, precision, recall, f1, balanced_accuracy of 3.c
    variable_importance,
    ranking_df,
    importance_note,    \* the conclusion 3.d prints about negative importances
    i, seed,            \* loop variables of the 3.e loop
    scores,             \* the five accumulation arrays of 3.e
    means,              \* the five np.mean results
    performance_df,
    error,              \* the exception that ended the run, or NoError
    load_calls,         \* number of pd.read_csv calls made
    log,                \* history: the library calls made, in order
    split_memo,         \* history: arguments of each Splitter run -> its first result
    last_split          \* history: arguments of the latest Splitter run, of the
                        \* run before it, and whether the latest repeats a run

vars == <<pc, file, np_random, learner, data, X, y, X_train, X_test, y_train,
          y_test, clf, y_pred, drought_probabilities, entries, result_label,
          label_model, metrics3c, variable_importance, ranking_df,
          importance_note, i, seed, scores, means, performance_df, error,
          load_calls, log, split_memo, last_split>>

----------------------------------------------------------------------------
(* Bounds of the model. *)

\* longest CSV (rows) the model reads
MaxRows == 4
\* label vectors of the Evaluator checked up to this length
MaxTest == 4
\* importances of the Importance Reporter range over 0..MaxImp
MaxImp == 2
\* states of numpy's global RandomState at kernel start range over 0..MaxEntropy
MaxEntropy == 1
\* in the Splitter's own specification the loop's seeds range over 0..MaxSeed
MaxSeed == 1
\* importances given to the negative-importance check range over -MaxNeg..1
MaxNeg == 1

----------------------------------------------------------------------------
(* Values. *)

\* a missing value of a cell (numeric cells hold naturals)
NaN == -1
\* Python's None where an integer may stand (a seed, a loop index)
None == -1
\* a name not bound yet in the kernel
Unbound == <<>>
NoError == "NoError"

predictors == <<"P", "PET", "ET", "SM", "SM_prev", "DS", "NDVI", "enso", "month">>
target == "drought"

PredictorSet == {predictors[k] : k \in 1..Len(predictors)}

\* X.columns of X = data[predictors]: the names of the list, in the list's order
X_columns == predictors

\* the columns section 6 of the specification names for the input file
Columns == {"lon", "lat"} \cup PredictorSet \cup {target}

RECURSIVE SumSeq(_)
SumSeq(s) == IF s = <<>> THEN 0 ELSE s[1] + SumSeq(Tail(s))

RECURSIVE Gcd(_, _)
Gcd(a, b) == IF b = 0 THEN a ELSE Gcd(b, a % b)

Lcm(a, b) == (a * b) \div Gcd(a, b)

RECURSIVE LcmSeq(_)
LcmSeq(s) == IF s = <<>> THEN 1 ELSE Lcm(s[1], LcmSeq(Tail(s)))

\* a score is a ratio <<numerator, denominator>>, denominator > 0
Ratio(a, b) == <<a, b>>
Zero == Ratio(0, 1)
RatEq(p, q) == p[1] * q[2] = q[1] * p[2]

----------------------------------------------------------------------------
(* pandas frames: a sequence of rows [index |-> label, cells |-> column -> value] *)

HasNaN(row) == \E c \in DOMAIN row.cells : row.cells[c] = NaN

\* DataFrame.dropna(how="all"): a row goes only when every cell is missing
dropna_all(df) == SelectSeq(df, LAMBDA r : \E c \in DOMAIN r.cells : r.cells[c] # NaN)

\* DataFrame.dropna(axis=0): every row holding a missing value goes, order kept
dropna(df) == SelectSeq(df, LAMBDA r : ~HasNaN(r))

\* a faulty variant of Project: every column of the frame is kept
Project_all(df, cols) ==
    [k \in 1..Len(df) |-> [index |-> df[k].index, cells |-> df[k].cells]]

\* df[cols]
Project(df, cols) ==
    [k \in 1..Len(df) |-> [index |-> df[k].index,
                           cells |-> [c \in cols |-> df[k].cells[c]]]]

\* df[col] as a series
Series(df, col) ==
    [k \in 1..Len(df) |-> [index |-> df[k].index, value |-> df[k].cells[col]]]

Indexes(df) == {df[k].index : k \in 1..Len(df)}

\* DataFrame.drop_duplicates(): of rows with the same cells the first is kept
drop_duplicates(df) ==
    LET first(k) == \A j \in 1..(k - 1) : df[j].cells # df[k].cells
        marked == [k \in 1..Len(df) |-> [row |-> df[k], keep |-> first(k)]]
        kept == SelectSeq(marked, LAMBDA r : r.keep)
    IN  [k \in 1..Len(kept) |-> kept[k].row]

----------------------------------------------------------------------------
(* The CSV file. *)

MkRow(v, d, na) ==
    [c \in Columns |-> IF c \in na THEN NaN ELSE IF c = target THEN d ELSE v]

\* rows a line of the file can hold: a drought, no drought, and a line with an
\* empty field outside the predictors and the target
RowPool == {MkRow(1, 1, {}), MkRow(0, 0, {}), MkRow(1, 0, {"lon"})}

RECURSIVE SeqsUpTo(_, _)
SeqsUpTo(S, n) ==
    IF n = 0 THEN {<<>>}
    ELSE LET shorter == SeqsUpTo(S, n - 1)
         IN  shorter \cup {Append(s, e) : s \in {t \in shorter : Len(t) = n - 1}, e \in S}

\* a parseable file whose header lacks a column
DropColumn(rows, col) ==
    [k \in 1..Len(rows) |-> [c \in Columns \ {col} |-> rows[k][c]]]

WellFormedFiles ==
    {[kind |-> "parsed", columns |-> Columns, rows |-> r] : r \in SeqsUpTo(RowPool, MaxRows)}

Files ==
    {[kind |-> "absent", columns |-> {}, rows |-> <<>>],
     [kind |-> "unparseable", columns |-> {}, rows |-> <<>>]}
    \cup WellFormedFiles
    \cup {[kind |-> "parsed", columns |-> Columns \ {c},
           rows |-> DropColumn(<<MkRow(1, 1, {}), MkRow(0, 0, {})>>, c)] :
             c \in {"lon", target}}

\* pd.read_csv on a parseable file: one row per line, RangeIndex 0..n-1
read_csv(f) == [k \in 1..Len(f.rows) |-> [index |-> k - 1, cells |-> f.rows[k]]]

\* a faulty variant of read_csv_error: a file that cannot be parsed reads as empty
read_csv_error_lenient(f) ==
    IF f.kind = "absent" THEN "FileNotFoundError" ELSE NoError

\* the exception pd.read_csv raises, or NoError
read_csv_error(f) ==
    CASE f.kind = "absent" -> "FileNotFoundError"
      [] f.kind = "unparseable" -> "ParserError"
      [] OTHER -> NoError

----------------------------------------------------------------------------
(* Random state.  numpy's Mersenne Twister is replaced by a small congruential *)
(* generator: what the notebook relies on is only that a RandomState built    *)
(* from an integer seed starts from a state the seed alone determines, while  *)
(* random_state=None draws from the global generator and advances it.         *)

rng_next(s) == (75 * s + 74) % 65537

\* np.random.RandomState(seed)
RandomState(rstate) == rng_next(rng_next(rstate % 65537))

\* a faulty variant of check_random_state: the seed is ignored, the global generator used
check_random_state_unseeded(rstate, global) == [global |-> TRUE, state |-> global]

\* sklearn.utils.check_random_state
check_random_state(rstate, global) ==
    IF rstate = None THEN [global |-> TRUE, state |-> global]
    ELSE [global |-> FALSE, state |-> RandomState(rstate)]

\* RandomState.permutation(n): Fisher-Yates over positions 0..n-1;
\* returns the permutation and the generator's state after it
RECURSIVE Shuffle(_, _, _)
Shuffle(arr, k, s) ==
    IF k <= 1 THEN [perm |-> arr, state |-> s]
    ELSE LET s2 == rng_next(s)
             j == (s2 % k) + 1
             swapped == [p \in 1..Len(arr) |-> IF p = k THEN arr[j]
                                               ELSE IF p = j THEN arr[k]
                                               ELSE arr[p]]
         IN  Shuffle(swapped, k - 1, s2)

permutation(s, n) == Shuffle([k \in 1..n |-> k - 1], n, s)

----------------------------------------------------------------------------
(* Splitter: sklearn.model_selection.train_test_split(X, y, test_size, random_state) *)

Ceil(a, b) == (a + b - 1) \div b

\* the fractions the notebook passes, as ratios
test_size_3a == Ratio(3, 10)
test_size_3e == Ratio(2, 10)

\* _validate_shuffle_split: n_test = ceil(test_size * n_samples)
n_test_of(test_size, n) == Ceil(test_size[1] * n, test_size[2])

\* a faulty variant of train_positions: the slice starts one position early
train_positions_overlap(perm, n_test, n_train) ==
    IF n_test = 0 THEN SubSeq(perm, 1, n_train)
    ELSE SubSeq(perm, n_test, n_test + n_train - 1)

\* ShuffleSplit: ind_train = permutation[n_test:(n_test + n_train)]
train_positions(perm, n_test, n_train) == SubSeq(perm, n_test + 1, n_test + n_train)

\* ShuffleSplit: ind_test = permutation[:n_test]
test_positions(perm, n_test) == SubSeq(perm, 1, n_test)

\* _safe_indexing: rows at the given 0-based positions, in that order
Take(frame, positions) == [k \in 1..Len(positions) |-> frame[positions[k] + 1]]

train_test_split(Xf, yf, test_size, rstate, global) ==
    LET n == Len(Xf)
        n_test == n_test_of(test_size, n)
        n_train == n - n_test
        rng == check_random_state(rstate, global)
        sh == permutation(rng.state, n)
        tr == train_positions(sh.perm, n_test, n_train)
        te == test_positions(sh.perm, n_test)
    IN  IF n_train <= 0
        THEN [error |-> "ValueError", global |-> global]
        ELSE [error |-> NoError,
              X_train |-> Take(Xf, tr), X_test |-> Take(Xf, te),
              y_train |-> Take(yf, tr), y_test |-> Take(yf, te),
              global |-> IF rng.global THEN sh.state ELSE global]

----------------------------------------------------------------------------
(* Model Trainer: RandomForestClassifier.  The forest is the library's; the   *)
(* model keeps what the notebook can observe of it: a fitted model is a       *)
(* function of its hyperparameters, its seed and its training rows.  Two      *)
(* learners stand for the library: one votes by the majority class of the     *)
(* training rows, one by the training rows that agree with the row on P.      *)

Learners == {"majority", "nearest"}

Count(s, P(_)) == Cardinality({k \in 1..Len(s) : P(s[k])})

MajorityOf(labels, rstate) ==
    LET ones == Count(labels, LAMBDA r : r.value = 1)
        zeros == Count(labels, LAMBDA r : r.value = 0)
    IN  IF ones > zeros THEN 1 ELSE IF zeros > ones THEN 0 ELSE rstate % 2

\* feature_importances_: all zero when no tree could split (one class in the
\* training rows), otherwise positive and dependent on the seed
FitImportances(yf, rstate) ==
    IF Cardinality({yf[k].value : k \in 1..Len(yf)}) < 2
    THEN [k \in 1..Len(predictors) |-> 0]
    ELSE [k \in 1..Len(predictors) |-> 1 + ((rstate + k) % 3)]

\* a faulty variant of fit: the model is fitted on the whole of X and y
fit_full_data(n_estimators, random_state, Xf, yf) ==
    [n_estimators |-> n_estimators,
     random_state |-> random_state,
     X_fit |-> X,
     y_fit |-> y,
     feature_names_in_ |-> X_columns,
     classes_ |-> {y[k].value : k \in 1..Len(y)},
     feature_importances_ |-> FitImportances(y, random_state)]

\* RandomForestClassifier(n_estimators, random_state).fit(X_train, y_train);
\* the columns of the frame it is given are those of X, which the split keeps
fit(n_estimators, random_state, Xf, yf) ==
    [n_estimators |-> n_estimators,
     random_state |-> random_state,
     X_fit |-> Xf,
     y_fit |-> yf,
     feature_names_in_ |-> X_columns,
     classes_ |-> {yf[k].value : k \in 1..Len(yf)},
     feature_importances_ |-> FitImportances(yf, random_state)]

\* the training labels the learner consults for one row of features
Consulted(lrn, c, cells) ==
    LET near == {k \in 1..Len(c.X_fit) : c.X_fit[k].cells["P"] = cells["P"]}
        pick == IF lrn = "nearest" /\ near # {} THEN near ELSE 1..Len(c.X_fit)
    IN  SelectSeq([k \in 1..Len(c.y_fit) |-> [value |-> c.y_fit[k].value, keep |-> k \in pick]],
                  LAMBDA r : r.keep)

PredictRow(lrn, c, cells) == MajorityOf(Consulted(lrn, c, cells), c.random_state)

\* clf.predict(X)
predict(lrn, c, Xf) == [k \in 1..Len(Xf) |-> PredictRow(lrn, c, Xf[k].cells)]

\* clf.predict_proba(X)[k][1]: the column of the second class; with one class
\* in the training rows the array has one column and index 1 is out of bounds
ProbaHasColumn1(c) == Cardinality(c.classes_) >= 2

Proba1(lrn, c, cells) ==
    LET votes == Consulted(lrn, c, cells)
    IN  Ratio(Count(votes, LAMBDA r : r.value = 1), Len(votes))

----------------------------------------------------------------------------
(* Evaluator: sklearn.metrics on (y_true, y_pred), labels 0 and 1 *)

Confusion(yt, yp) ==
    LET n == Len(yp)
        cnt(a, b) == Cardinality({k \in 1..n : yt[k] = a /\ yp[k] = b})
    IN  [tp |-> cnt(1, 1), fp |-> cnt(0, 1), fn |-> cnt(1, 0), tn |-> cnt(0, 0)]

accuracy_score(yt, yp) ==
    LET c == Confusion(yt, yp) IN Ratio(c.tp + c.tn, Len(yp))

\* zero_division="warn": a 0/0 precision is reported as 0.0
precision_score(yt, yp) ==
    LET c == Confusion(yt, yp)
    IN  IF c.tp + c.fp = 0 THEN Zero ELSE Ratio(c.tp, c.tp + c.fp)

recall_score(yt, yp) ==
    LET c == Confusion(yt, yp)
    IN  IF c.tp + c.fn = 0 THEN Zero ELSE Ratio(c.tp, c.tp + c.fn)

f1_score(yt, yp) ==
    LET c == Confusion(yt, yp)
    IN  IF c.tp = 0 THEN Zero ELSE Ratio(2 * c.tp, 2 * c.tp + c.fp + c.fn)

\* a faulty variant of balanced_accuracy_score: the two recalls are summed, not averaged
balanced_accuracy_score_sum(yt, yp) ==
    LET c == Confusion(yt, yp)
        pos == c.tp + c.fn
        neg == c.tn + c.fp
    IN  IF pos = 0 THEN Ratio(c.tn, neg)
        ELSE IF neg = 0 THEN Ratio(c.tp, pos)
        ELSE Ratio(c.tn * pos + c.tp * neg, neg * pos)

\* mean of the recalls of the classes present in y_true (a class absent from
\* y_true has recall nan and is left out)
balanced_accuracy_score(yt, yp) ==
    LET c == Confusion(yt, yp)
        pos == c.tp + c.fn
        neg == c.tn + c.fp
    IN  IF pos = 0 THEN Ratio(c.tn, neg)
        ELSE IF neg = 0 THEN Ratio(c.tp, pos)
        ELSE Ratio(c.tn * pos + c.tp * neg, 2 * neg * pos)

MetricNames == {"accuracy", "precision", "recall", "f1", "balanced_accuracy"}

MetricRecord(yt, yp) ==
    [accuracy |-> accuracy_score(yt, yp),
     precision |-> precision_score(yt, yp),
     recall |-> recall_score(yt, yp),
     f1 |-> f1_score(yt, yp),
     balanced_accuracy |-> balanced_accuracy_score(yt, yp)]

Values(series) == [k \in 1..Len(series) |-> series[k].value]

\* a faulty variant of np_mean: the sum is divided by one less than the length
np_mean_short(arr) ==
    LET L == LcmSeq([k \in 1..Len(arr) |-> arr[k][2]])
    IN  Ratio(SumSeq([k \in 1..Len(arr) |-> arr[k][1] * (L \div arr[k][2])]),
              L * (IF Len(arr) > 1 THEN Len(arr) - 1 ELSE 1))

\* np.mean of an array of scores
np_mean(arr) ==
    LET L == LcmSeq([k \in 1..Len(arr) |-> arr[k][2]])
    IN  Ratio(SumSeq([k \in 1..Len(arr) |-> arr[k][1] * (L \div arr[k][2])]),
              L * Len(arr))

----------------------------------------------------------------------------
(* Importance Reporter *)

\* np.argsort on an array this short runs the insertion sort of numpy's
\* quicksort: ascending, equal keys left in index order.  Positions are 1-based.
RECURSIVE InsertSorted(_, _, _)
InsertSorted(sorted, k, v) ==
    IF sorted = <<>> THEN <<k>>
    ELSE IF v[Head(sorted)] > v[k] THEN <<k>> \o sorted
    ELSE <<Head(sorted)>> \o InsertSorted(Tail(sorted), k, v)

RECURSIVE ArgsortUpTo(_, _)
ArgsortUpTo(v, n) ==
    IF n = 0 THEN <<>> ELSE InsertSorted(ArgsortUpTo(v, n - 1), n, v)

argsort(v) == ArgsortUpTo(v, Len(v))

Reverse(s) == [k \in 1..Len(s) |-> s[Len(s) + 1 - k]]

\* a faulty variant of sorted_indices: the [::-1] is missing
sorted_indices_ascending(v) == argsort(v)

\* np.argsort(variable_importance)[::-1]
sorted_indices(v) == Reverse(argsort(v))

\* a faulty variant of negative_importance: an importance of zero counts as negative
negative_importance_nonpositive(v) == [k \in 1..Len(v) |-> v[k] <= 0]

\* negative_importance = variable_importance < 0, element by element
negative_importance(v) == [k \in 1..Len(v) |-> v[k] < 0]

\* np.any
np_any(b) == \E k \in 1..Len(b) : b[k]

\* the conclusion the cell prints
conclusion(v) == IF np_any(negative_importance(v)) THEN "negative" ELSE "all_predictive"

\* the ranking DataFrame: Predictor, Variable Importance, Rank
ranking(v) ==
    LET idx == sorted_indices(v)
    IN  [k \in 1..Len(idx) |-> [Predictor |-> X_columns[idx[k]],
                                Importance |-> v[idx[k]],
                                Rank |-> k]]

----------------------------------------------------------------------------
(* The notebook's own constants. *)

n_iterations == 30
n_estimators_3a == 500
random_state_3a == 42
n_estimators_3e == 100

\* seeds = np.arange(n_iterations)
seeds == [k \in 1..n_iterations |-> k - 1]

\* np.zeros(n_iterations)
zeros == [k \in 1..n_iterations |-> Zero]

\* a logged call: the stage, the loop index (None outside the loop), the seed
\* passed or the seed of the model used, and for a scoring the Metric Record
EventOut(stage, ii, rs, out) == [stage |-> stage, i |-> ii, random_state |-> rs, out |-> out]
Event(stage, ii, rs) == EventOut(stage, ii, rs, <<>>)

splits == <<X_train, X_test, y_train, y_test>>
frames == <<data, X, y>>
widgets == <<entries, result_label, label_model>>
report == <<variable_importance, ranking_df, importance_note>>
loop == <<i, seed, scores, means, performance_df>>
history == <<split_memo, last_split>>
world == <<file, learner>>

\* an exception ends the cell; a top-to-bottom run stops there
Raise(e) == /\ error' = e
            /\ pc' = "failed"

----------------------------------------------------------------------------
(* Cell "Load dataset" (lines 130-140) *)

LoadDataset ==
    /\ pc = "load"
    /\ load_calls' = load_calls + 1
    /\ IF read_csv_error(file) # NoError
       THEN /\ Raise(read_csv_error(file))
            /\ UNCHANGED <<data, log>>
       ELSE /\ data' = dropna(read_csv(file))
            /\ log' = Append(log, Event("load", None, None))
            /\ pc' = "plot"
            /\ error' = error
    /\ UNCHANGED <<world, np_random, X, y, splits, clf, y_pred, drought_probabilities,
                   widgets, metrics3c, report, loop, history>>

(* Cell "Find unique points" (lines 169-190): reads data[['lon', 'lat']] *)

\* a faulty variant of PlotLocations: the rows whose location repeats an earlier
\* one are dropped from data itself
PlotLocations_inplace ==
    /\ pc = "plot"
    /\ IF {"lon", "lat"} \subseteq file.columns
       THEN /\ data' = SelectSeq(data, LAMBDA r :
                           r.index \in Indexes(drop_duplicates(Project(data, {"lon", "lat"}))))
            /\ pc' = "balance"
            /\ log' = Append(log, Event("plot", None, None))
            /\ error' = error
       ELSE /\ Raise("KeyError")
            /\ UNCHANGED <<data, log>>
    /\ UNCHANGED <<world, np_random, X, y, splits, clf, y_pred, drought_probabilities,
                   widgets, metrics3c, report, loop, history, load_calls>>

PlotLocations ==
    /\ pc = "plot"
    /\ IF {"lon", "lat"} \subseteq file.columns
       THEN /\ pc' = "balance"
            /\ log' = Append(log, Event("plot", None, None))
            /\ error' = error
       ELSE /\ Raise("KeyError")
            /\ log' = log
    /\ UNCHANGED <<world, np_random, frames, splits, clf, y_pred, drought_probabilities,
                   widgets, metrics3c, report, loop, history, load_calls>>

(* Cell "Predictors dataframe" (lines 211-238): X, y and the class balance *)

Balance ==
    /\ pc = "balance"
    /\ IF PredictorSet \cup {target} \subseteq file.columns
       THEN /\ X' = Project(data, PredictorSet)
            /\ y' = Series(data, target)
            /\ pc' = "split3a"
            /\ log' = Append(log, Event("balance", None, None))
            /\ error' = error
       ELSE /\ Raise("KeyError")
            /\ UNCHANGED <<X, y, log>>
    /\ UNCHANGED <<world, np_random, data, splits, clf, y_pred, drought_probabilities,
                   widgets, metrics3c, report, loop, history, load_calls>>

----------------------------------------------------------------------------
(* One run of the Splitter on the kernel's X and y: the four subsets are    *)
(* rebound, or ValueError is raised when the training subset would be empty *)

SplitterRun(test_size, rs) ==
    LET r == train_test_split(X, y, test_size, rs, np_random)
        args == <<test_size, rs>>
    IN  /\ np_random' = r.global
        /\ last_split' = [args |-> args, prev |-> last_split.args,
                           rerun |-> args \in DOMAIN split_memo]
        /\ IF r.error # NoError
           THEN /\ error' = r.error
                /\ UNCHANGED <<splits, split_memo>>
           ELSE /\ error' = error
                /\ X_train' = r.X_train
                /\ X_test' = r.X_test
                /\ y_train' = r.y_train
                /\ y_test' = r.y_test
                /\ split_memo' = IF args \in DOMAIN split_memo THEN split_memo
                                 ELSE split_memo @@ (args :> <<r.X_train, r.X_test, r.y_train, r.y_test>>)

(* Cell 3.a (lines 266-271): split 70/30, then fit 500 trees *)

Split3a ==
    /\ pc = "split3a"
    /\ SplitterRun(test_size_3a, random_state_3a)
    /\ pc' = IF error' # NoError THEN "failed" ELSE "fit3a"
    /\ log' = Append(log, Event("split", None, random_state_3a))
    /\ UNCHANGED <<world, frames, clf, y_pred, drought_probabilities, widgets,
                   metrics3c, report, loop, load_calls>>

Fit3a ==
    /\ pc = "fit3a"
    /\ clf' = fit(n_estimators_3a, random_state_3a, X_train, y_train)
    /\ pc' = "predict3b"
    /\ log' = Append(log, Event("fit", None, random_state_3a))
    /\ UNCHANGED <<world, np_random, frames, splits, y_pred, drought_probabilities,
                   widgets, metrics3c, report, loop, history, error, load_calls>>

(* Cell 3.b (lines 304-315): y_pred = clf.predict(X_test) *)

Predict3b ==
    /\ pc = "predict3b"
    /\ y_pred' = predict(learner, clf, X_test)
    /\ pc' = "proba3b"
    /\ log' = Append(log, Event("predict", None, clf.random_state))
    /\ UNCHANGED <<world, np_random, frames, splits, clf, drought_probabilities,
                   widgets, metrics3c, report, loop, history, error, load_calls>>

(* Cell (lines 344-353): drought_probabilities = clf.predict_proba(X_test)[:, 1] *)

Proba3b ==
    /\ pc = "proba3b"
    /\ IF ProbaHasColumn1(clf)
       THEN /\ drought_probabilities' =
                   [k \in 1..Len(X_test) |-> Proba1(learner, clf, X_test[k].cells)]
            /\ pc' = "widgets"
            /\ log' = Append(log, Event("proba", None, clf.random_state))
            /\ error' = error
       ELSE /\ Raise("IndexError")
            /\ UNCHANGED <<drought_probabilities, log>>
    /\ UNCHANGED <<world, np_random, frames, splits, clf, y_pred, widgets,
                   metrics3c, report, loop, history, load_calls>>

(* Cell (lines 365-405): one FloatText per predictor, the button, the label *)

Widgets ==
    /\ pc = "widgets"
    /\ entries' = [k \in 1..Len(predictors) |-> [predictor |-> predictors[k], value |-> 0]]
    /\ result_label' = Unbound
    /\ label_model' = Unbound
    /\ pc' = "eval3c"
    /\ log' = Append(log, Event("widgets", None, None))
    /\ UNCHANGED <<world, np_random, frames, splits, clf, y_pred, drought_probabilities,
                   metrics3c, report, loop, history, error, load_calls>>

\* the kernel runs a widget callback only between cells, once the cell that
\* registered it has run
Idle == pc \in {"eval3c", "importance3d", "loop_init", "done"}

\* the keys of the ranges dictionary, in the order they are written
ranges_keys == <<"enso", "PET", "P", "ET", "SM", "SM_prev", "DS", "NDVI", "month">>

\* a faulty variant of entry_values: the values are listed in the order of the
\* keys of ranges
entry_values_by_ranges(es) ==
    [k \in 1..Len(ranges_keys) |->
        es[CHOOSE j \in 1..Len(es) : es[j].predictor = ranges_keys[k]].value]

\* input_values = [float(entry.value) for entry in entries]
entry_values(es) == [k \in 1..Len(es) |-> es[k].value]

\* the row predict_proba reads from a plain list: the k-th value is taken as the
\* k-th column the model was fitted on
InputCells(c, values) ==
    [col \in {c.feature_names_in_[k] : k \in 1..Len(c.feature_names_in_)} |->
        values[CHOOSE k \in 1..Len(c.feature_names_in_) : c.feature_names_in_[k] = col]]

\* f"{prob:.2f}": the probability in hundredths, rounded to the nearest, a half
\* to the even neighbour
Format2f(p) ==
    LET q == (100 * p[1]) \div p[2]
        r == (100 * p[1]) % p[2]
    IN  Ratio(IF 2 * r > p[2] THEN q + 1
              ELSE IF 2 * r = p[2] THEN q + (q % 2)
              ELSE q, 100)

\* the values a user types into a field
EntryValues == {0, 1}

(* The user edits one FloatText field *)

EditEntry ==
    /\ Idle
    /\ \E k \in 1..Len(entries), v \in EntryValues :
          entries' = [entries EXCEPT ![k].value = v]
    /\ UNCHANGED <<pc, world, np_random, frames, splits, clf, y_pred,
                   drought_probabilities, result_label, label_model, metrics3c,
                   report, loop, history, error, load_calls, log>>

(* predict_drought_probability (lines 378-386), the Predict button's callback: *)
(* it reads the global clf at the time of the click; an exception inside the   *)
(* callback is reported and leaves the label as it was                         *)

PredictClick ==
    /\ Idle
    /\ IF ProbaHasColumn1(clf)
       THEN /\ result_label' =
                   Format2f(Proba1(learner, clf, InputCells(clf, entry_values(entries))))
            /\ label_model' = <<clf.n_estimators, clf.random_state>>
       ELSE UNCHANGED <<result_label, label_model>>
    /\ UNCHANGED <<pc, world, np_random, frames, splits, clf, y_pred,
                   drought_probabilities, entries, metrics3c, report, loop,
                   history, error, load_calls, log>>

(* Cell 3.c (lines 435-454): the five metrics on (y_test, y_pred) *)

Evaluate3c ==
    /\ pc = "eval3c"
    /\ metrics3c' = MetricRecord(Values(y_test), y_pred)
    /\ pc' = "importance3d"
    /\ log' = Append(log, EventOut("score", None, None, metrics3c'))
    /\ UNCHANGED <<world, np_random, frames, splits, clf, y_pred, drought_probabilities,
                   widgets, report, loop, history, error, load_calls>>

(* Cell 3.d (lines 493-532): importances, the negative-importance note, ranking *)

Importance3d ==
    /\ pc = "importance3d"
    /\ variable_importance' = clf.feature_importances_
    /\ importance_note' = conclusion(clf.feature_importances_)
    /\ ranking_df' = ranking(clf.feature_importances_)
    /\ pc' = "loop_init"
    /\ log' = Append(log, Event("importance", None, clf.random_state))
    /\ UNCHANGED <<world, np_random, frames, splits, clf, y_pred, drought_probabilities,
                   widgets, metrics3c, loop, history, error, load_calls>>

----------------------------------------------------------------------------
(* Cell 3.e (lines 567-625): the Stability Runner *)

LoopInit ==
    /\ pc = "loop_init"
    /\ scores' = [m \in MetricNames |-> zeros]
    /\ pc' = IF n_iterations > 0 THEN "loop_split" ELSE "loop_mean"
    /\ UNCHANGED <<world, np_random, frames, splits, clf, y_pred, drought_probabilities,
                   widgets, metrics3c, report, i, seed, means, performance_df,
                   history, error, load_calls, log>>

\* for i, seed in enumerate(seeds): the next pair
NextIndex == IF i = None THEN 0 ELSE i + 1

\* a faulty variant of LoopSeed: every iteration reuses the seed of stage 3.a
LoopSeedFixed(ii) == random_state_3a

LoopSeed(ii) == seeds[ii + 1]

LoopSplit ==
    /\ pc = "loop_split"
    /\ i' = NextIndex
    /\ seed' = LoopSeed(NextIndex)
    /\ SplitterRun(test_size_3e, LoopSeed(NextIndex))
    /\ pc' = IF error' # NoError THEN "failed" ELSE "loop_fit"
    /\ log' = Append(log, Event("split", NextIndex, LoopSeed(NextIndex)))
    /\ UNCHANGED <<world, frames, clf, y_pred, drought_probabilities, widgets,
                   metrics3c, report, scores, means, performance_df, load_calls>>

LoopFit ==
    /\ pc = "loop_fit"
    /\ clf' = fit(n_estimators_3e, seed, X_train, y_train)
    /\ pc' = "loop_predict"
    /\ log' = Append(log, Event("fit", i, seed))
    /\ UNCHANGED <<world, np_random, frames, splits, y_pred, drought_probabilities,
                   widgets, metrics3c, report, loop, history, error, load_calls>>

LoopPredict ==
    /\ pc = "loop_predict"
    /\ y_pred' = predict(learner, clf, X_test)
    /\ pc' = "loop_score"
    /\ log' = Append(log, Event("predict", i, clf.random_state))
    /\ UNCHANGED <<world, np_random, frames, splits, clf, drought_probabilities,
                   widgets, metrics3c, report, loop, history, error, load_calls>>

\* a faulty variant of ScoreSlot: every iteration writes the first slot
ScoreSlotFirst(ii) == 1

\* accuracy_scores[i]: numpy index i is position i + 1
ScoreSlot(ii) == ii + 1

LoopScore ==
    /\ pc = "loop_score"
    /\ LET rec == MetricRecord(Values(y_test), y_pred)
       IN  /\ scores' = [m \in MetricNames |-> [scores[m] EXCEPT ![ScoreSlot(i)] = rec[m]]]
           /\ log' = Append(log, EventOut("score", i, clf.random_state, rec))
    /\ pc' = IF i + 1 < n_iterations THEN "loop_split" ELSE "loop_mean"
    /\ UNCHANGED <<world, np_random, frames, splits, clf, y_pred, drought_probabilities,
                   widgets, metrics3c, report, i, seed, means, performance_df,
                   history, error, load_calls>>

LoopMean ==
    /\ pc = "loop_mean"
    /\ means' = [m \in MetricNames |-> np_mean(scores[m])]
    /\ performance_df' = scores
    /\ pc' = "done"
    /\ log' = Append(log, Event("mean", None, None))
    /\ UNCHANGED <<world, np_random, frames, splits, clf, y_pred, drought_probabilities,
                   widgets, metrics3c, report, i, seed, scores, history, error,
                   load_calls>>

----------------------------------------------------------------------------
(* The notebook, run top to bottom on a file of the bounded family. *)

KernelFresh ==
    /\ data = <<>> /\ X = <<>> /\ y = <<>>
    /\ X_train = <<>> /\ X_test = <<>> /\ y_train = <<>> /\ y_test = <<>>
    /\ clf = Unbound
    /\ y_pred = <<>>
    /\ drought_probabilities = <<>>
    /\ entries = <<>> /\ result_label = Unbound /\ label_model = Unbound
    /\ metrics3c = Unbound
    /\ variable_importance = <<>> /\ ranking_df = <<>> /\ importance_note = ""
    /\ i = None /\ seed = None
    /\ scores = Unbound /\ means = Unbound /\ performance_df = Unbound
    /\ error = NoError
    /\ load_calls = 0
    /\ log = <<>>
    /\ split_memo = <<>>
    /\ last_split = [args |-> <<>>, prev |-> <<>>, rerun |-> FALSE]

Init ==
    /\ pc = "load"
    /\ file \in Files
    /\ learner \in Learners
    /\ np_random = 0
    /\ KernelFresh

Next ==
    \/ LoadDataset
    \/ PlotLocations
    \/ Balance
    \/ Split3a
    \/ Fit3a
    \/ Predict3b
    \/ Proba3b
    \/ Widgets
    \/ PredictClick
    \/ Evaluate3c
    \/ Importance3d
    \/ LoopInit
    \/ LoopSplit
    \/ LoopFit
    \/ LoopPredict
    \/ LoopScore
    \/ LoopMean

Spec == Init /\ [][Next]_vars

----------------------------------------------------------------------------
(* The Splitter alone: any sequence of the notebook's train_test_split calls *)
(* on one Dataset, from any state of the global generator.                   *)

SplitCalls ==
    {<<test_size_3a, random_state_3a>>}
    \cup {<<test_size_3e, s>> : s \in 0..MaxSeed}

SplitFiles ==
    {f \in WellFormedFiles :
        \A k \in 1..Len(f.rows) : f.rows[k] \in {MkRow(1, 1, {}), MkRow(1, 0, {"lon"})}}

SplitterCall ==
    /\ pc = "splitter"
    /\ \E args \in SplitCalls : SplitterRun(args[1], args[2])
    /\ UNCHANGED <<pc, world, frames, clf, y_pred, drought_probabilities, widgets,
                   metrics3c, report, loop, load_calls, log>>

InitSplit ==
    /\ pc = "splitter"
    /\ file \in SplitFiles
    /\ learner = "majority"
    /\ np_random \in 0..MaxEntropy
    /\ data = dropna(read_csv(file))
    /\ X = Project(data, PredictorSet)
    /\ y = Series(data, target)
    /\ X_train = <<>> /\ X_test = <<>> /\ y_train = <<>> /\ y_test = <<>>
    /\ clf = Unbound
    /\ y_pred = <<>>
    /\ drought_probabilities = <<>>
    /\ entries = <<>> /\ result_label = Unbound /\ label_model = Unbound
    /\ metrics3c = Unbound
    /\ variable_importance = <<>> /\ ranking_df = <<>> /\ importance_note = ""
    /\ i = None /\ seed = None
    /\ scores = Unbound /\ means = Unbound /\ performance_df = Unbound
    /\ error = NoError
    /\ load_calls = 1
    /\ log = <<>>
    /\ split_memo = <<>>
    /\ last_split = [args |-> <<>>, prev |-> <<>>, rerun |-> FALSE]

NextSplit == SplitterCall

SpecSplit == InitSplit /\ [][NextSplit]_vars

----------------------------------------------------------------------------
(* The Evaluator alone: stage 3.c and the scoring step of a loop iteration *)
(* on any pair of label vectors of the same length.                        *)

Labels == {0, 1}

LabelVectors(n) == [1..n -> Labels]

InitMetric ==
    /\ pc \in {"eval3c", "loop_score"}
    /\ file \in {f \in WellFormedFiles : f.rows = <<>>}
    /\ learner = "majority"
    /\ np_random = 0
    /\ data = <<>> /\ X = <<>> /\ y = <<>>
    /\ X_train = <<>> /\ X_test = <<>> /\ y_train = <<>>
    /\ \E n \in 1..MaxTest :
          /\ \E t \in LabelVectors(n) : y_test = [k \in 1..n |-> [index |-> k - 1, value |-> t[k]]]
          /\ y_pred \in LabelVectors(n)
    /\ drought_probabilities = <<>>
    /\ entries = <<>> /\ result_label = Unbound /\ label_model = Unbound
    /\ metrics3c = Unbound
    /\ variable_importance = <<>> /\ ranking_df = <<>> /\ importance_note = ""
    /\ IF pc = "loop_score"
       THEN /\ i \in {0, n_iterations - 1}
            /\ seed = i
            /\ scores = [m \in MetricNames |-> zeros]
       ELSE /\ i = None
            /\ seed = None
            /\ scores = Unbound
    /\ clf = IF pc = "loop_score"
             THEN fit(n_estimators_3e, i, <<>>, <<>>)
             ELSE fit(n_estimators_3a, random_state_3a, <<>>, <<>>)
    /\ means = Unbound /\ performance_df = Unbound
    /\ error = NoError
    /\ load_calls = 1
    /\ log = <<>>
    /\ split_memo = <<>>
    /\ last_split = [args |-> <<>>, prev |-> <<>>, rerun |-> FALSE]

NextMetric ==
    \/ Evaluate3c
    \/ LoopScore

SpecMetric == InitMetric /\ [][NextMetric]_vars

----------------------------------------------------------------------------
(* The Importance Reporter alone: stage 3.d on a model with any importances *)
(* in the bounded range.                                                    *)

ImportanceVectors == [1..Len(predictors) -> 0..MaxImp]

InitRank ==
    /\ pc = "importance3d"
    /\ file \in {f \in WellFormedFiles : f.rows = <<>>}
    /\ learner = "majority"
    /\ np_random = 0
    /\ data = <<>> /\ X = <<>> /\ y = <<>>
    /\ X_train = <<>> /\ X_test = <<>> /\ y_train = <<>> /\ y_test = <<>>
    /\ \E v \in ImportanceVectors :
          clf = [n_estimators |-> n_estimators_3a, random_state |-> random_state_3a,
                 X_fit |-> <<>>, y_fit |-> <<>>, feature_names_in_ |-> X_columns,
                 classes_ |-> Labels, feature_importances_ |-> v]
    /\ y_pred = <<>>
    /\ drought_probabilities = <<>>
    /\ entries = <<>> /\ result_label = Unbound /\ label_model = Unbound
    /\ metrics3c = Unbound
    /\ variable_importance = <<>> /\ ranking_df = <<>> /\ importance_note = ""
    /\ i = None /\ seed = None
    /\ scores = Unbound /\ means = Unbound /\ performance_df = Unbound
    /\ error = NoError
    /\ load_calls = 1
    /\ log = <<>>
    /\ split_memo = <<>>
    /\ last_split = [args |-> <<>>, prev |-> <<>>, rerun |-> FALSE]

NextRank == Importance3d

SpecRank == InitRank /\ [][NextRank]_vars

----------------------------------------------------------------------------
(* The Predict form alone: the widget cell, the user's edits and the clicks, *)
(* started where cell 3.b has left the kernel on a file of complete lines.   *)

\* the kernel after the cells up to 3.b have run on file f
Split3aOf(f) ==
    train_test_split(Project(dropna(read_csv(f)), PredictorSet),
                     Series(dropna(read_csv(f)), target),
                     test_size_3a, random_state_3a, 0)

Model3aOf(f) ==
    fit(n_estimators_3a, random_state_3a, Split3aOf(f).X_train, Split3aOf(f).y_train)

\* the files on which a top-to-bottom run reaches the widget cell
WidgetFiles ==
    {f \in WellFormedFiles :
        /\ \A k \in 1..Len(f.rows) : f.rows[k] \in {MkRow(1, 1, {}), MkRow(0, 0, {})}
        /\ Split3aOf(f).error = NoError
        /\ ProbaHasColumn1(Model3aOf(f))}

InitWidget ==
    /\ pc = "widgets"
    /\ file \in WidgetFiles
    /\ learner \in Learners
    /\ np_random = 0
    /\ data = dropna(read_csv(file))
    /\ X = Project(data, PredictorSet)
    /\ y = Series(data, target)
    /\ X_train = Split3aOf(file).X_train
    /\ X_test = Split3aOf(file).X_test
    /\ y_train = Split3aOf(file).y_train
    /\ y_test = Split3aOf(file).y_test
    /\ clf = Model3aOf(file)
    /\ y_pred = predict(learner, clf, X_test)
    /\ drought_probabilities = [k \in 1..Len(X_test) |-> Proba1(learner, clf, X_test[k].cells)]
    /\ entries = <<>> /\ result_label = Unbound /\ label_model = Unbound
    /\ metrics3c = Unbound
    /\ variable_importance = <<>> /\ ranking_df = <<>> /\ importance_note = ""
    /\ i = None /\ seed = None
    /\ scores = Unbound /\ means = Unbound /\ performance_df = Unbound
    /\ error = NoError
    /\ load_calls = 1
    /\ log = <<>>
    /\ split_memo = <<>>
    /\ last_split = [args |-> <<>>, prev |-> <<>>, rerun |-> FALSE]

NextWidget ==
    \/ Widgets
    \/ EditEntry
    \/ PredictClick

SpecWidget == InitWidget /\ [][NextWidget]_vars

----------------------------------------------------------------------------
(* The negative-importance check alone: stage 3.d on any array of importances *)
(* of either sign.  A forest's importances are never below zero; arrays with  *)
(* negative entries are drawn so that both branches of the cell are taken.    *)

SignedImportanceVectors == [1..Len(predictors) -> (0 - MaxNeg)..1]

InitNote ==
    /\ pc = "importance3d"
    /\ file \in {f \in WellFormedFiles : f.rows = <<>>}
    /\ learner = "majority"
    /\ np_random = 0
    /\ data = <<>> /\ X = <<>> /\ y = <<>>
    /\ X_train = <<>> /\ X_test = <<>> /\ y_train = <<>> /\ y_test = <<>>
    /\ \E v \in SignedImportanceVectors :
          clf = [n_estimators |-> n_estimators_3a, random_state |-> random_state_3a,
                 X_fit |-> <<>>, y_fit |-> <<>>, feature_names_in_ |-> X_columns,
                 classes_ |-> Labels, feature_importances_ |-> v]
    /\ y_pred = <<>>
    /\ drought_probabilities = <<>>
    /\ entries = <<>> /\ result_label = Unbound /\ label_model = Unbound
    /\ metrics3c = Unbound
    /\ variable_importance = <<>> /\ ranking_df = <<>> /\ importance_note = ""
    /\ i = None /\ seed = None
    /\ scores = Unbound /\ means = Unbound /\ performance_df = Unbound
    /\ error = NoError
    /\ load_calls = 1
    /\ log = <<>>
    /\ split_memo = <<>>
    /\ last_split = [args |-> <<>>, prev |-> <<>>, rerun |-> FALSE]

NextNote == Importance3d

SpecNote == InitNote /\ [][NextNote]_vars

----------------------------------------------------------------------------
(* Properties of the Splitter, checked under SpecSplit *)

SplitDone == last_split.args # <<>> /\ error = NoError

IndexSeq(frame) == [k \in 1..Len(frame) |-> frame[k].index]

\* C1: the Splitter's output is a partition of the Dataset's rows: no row is in
\* both Training and Test, every row is in one of them, the sizes add up to the
\* Dataset's, the labels travel with their rows, and the size of Test differs
\* from fraction * |Dataset| by less than 1.  The calls are the notebook's:
\* (0.3, seed 42) and (0.2, seed i).
C1_SplitIsPartition ==
    SplitDone =>
        LET ts == last_split.args[1]
        IN  /\ Indexes(X_train) \cap Indexes(X_test) = {}
            /\ Indexes(X_train) \cup Indexes(X_test) = Indexes(X)
            /\ Cardinality(Indexes(X_train)) = Len(X_train)
            /\ Cardinality(Indexes(X_test)) = Len(X_test)
            /\ Len(X_train) + Len(X_test) = Len(X)
            /\ IndexSeq(y_train) = IndexSeq(X_train)
            /\ IndexSeq(y_test) = IndexSeq(X_test)
            /\ ts[2] * Len(X_test) - ts[1] * Len(X) < ts[2]
            /\ ts[1] * Len(X) - ts[2] * Len(X_test) < ts[2]

\* a 0.2 split of the three rows left of a four-line file: 0.6 rows rounded to 1
C1_Witness ==
    /\ SplitDone
    /\ last_split.args = <<test_size_3e, 1>>
    /\ Len(X) = 3
    /\ Len(X_test) = 1
    /\ Len(X_train) = 2
    /\ Len(file.rows) = 4

\* C2: a run of Splitter(Dataset, fraction, seed) yields the Training and Test
\* subsets that the first run with the same fraction and seed yielded, whatever
\* splits ran in between and whatever the global generator's state.
C2_SplitDeterministic ==
    (SplitDone /\ last_split.args \in DOMAIN split_memo) =>
        <<X_train, X_test, y_train, y_test>> = split_memo[last_split.args]

\* a split is repeated right after a split with another fraction or seed
C2_Witness ==
    /\ SplitDone
    /\ last_split.rerun
    /\ last_split.prev # <<>>
    /\ last_split.prev # last_split.args
    /\ Len(X) >= 3

----------------------------------------------------------------------------
(* Properties of the Stability Runner, checked under Spec *)

LoopEvents == SelectSeq(log, LAMBDA e : e.i # None)

IterationOrder == <<"split", "fit", "predict", "score">>

\* C3: the loop's library calls are, in order, split, fit, predict, score of
\* iteration 0, then of iteration 1, and so on up to iteration N-1; the split
\* and the fit of iteration i are passed seed i, and the predictions and the
\* scores of iteration i come from the model fitted with seed i.
C3_LoopOrder ==
    /\ Len(LoopEvents) <= 4 * n_iterations
    /\ \A k \in 1..Len(LoopEvents) :
          LET e == LoopEvents[k]
              it == (k - 1) \div 4
          IN  /\ e.stage = IterationOrder[((k - 1) % 4) + 1]
              /\ e.i = it
              /\ e.random_state = it
    /\ pc = "done" => Len(LoopEvents) = 4 * n_iterations

C3_Witness ==
    /\ pc = "done"
    /\ Len(LoopEvents) = 4 * n_iterations
    /\ LoopEvents[4 * n_iterations].i = n_iterations - 1

ScoreEvents == SelectSeq(LoopEvents, LAMBDA e : e.stage = "score")

\* the average of the logged values of one metric, as a ratio
LoggedAverage(m) ==
    LET vals == [k \in 1..Len(ScoreEvents) |-> ScoreEvents[k].out[m]]
        D == LcmSeq([k \in 1..Len(vals) |-> vals[k][2]])
    IN  Ratio(SumSeq([k \in 1..Len(vals) |-> (vals[k][1] * D) \div vals[k][2]]),
              D * n_iterations)

\* C4: when the Stability Runner has finished there are exactly N Metric
\* Records, record i holds the metrics computed in iteration i, and each
\* reported mean is the sum of that metric's N values divided by N.
C4_RecordsAndMeans ==
    pc = "done" =>
        /\ Len(ScoreEvents) = n_iterations
        /\ \A m \in MetricNames :
              /\ Len(performance_df[m]) = n_iterations
              /\ \A k \in 1..n_iterations :
                    /\ ScoreEvents[k].i = k - 1
                    /\ performance_df[m][k] = ScoreEvents[k].out[m]
              /\ RatEq(means[m], LoggedAverage(m))

\* the loop has finished and the accuracies of its iterations are not all equal
C4_Witness ==
    /\ pc = "done"
    /\ \E k \in 1..n_iterations :
          ~RatEq(performance_df["accuracy"][k], performance_df["accuracy"][1])
    /\ ~RatEq(means["accuracy"], Zero)

----------------------------------------------------------------------------
(* Properties of the Importance Reporter, checked under SpecRank *)

ColumnPos(name) == CHOOSE k \in 1..Len(predictors) : predictors[k] = name

Ranked == ranking_df # <<>>

NonIncreasing ==
    \A a, b \in 1..Len(ranking_df) :
        a < b => ranking_df[a].Importance >= ranking_df[b].Importance

\* C5: the ranked list is ordered by importance descending and predictors of
\* equal importance appear in their original column order.
C5_TiesInColumnOrder ==
    Ranked =>
        /\ NonIncreasing
        /\ \A a, b \in 1..Len(ranking_df) :
              (a < b /\ ranking_df[a].Importance = ranking_df[b].Importance) =>
                  ColumnPos(ranking_df[a].Predictor) < ColumnPos(ranking_df[b].Predictor)

\* C6: the ranked output is non-increasing in importance from rank 1 to rank n,
\* holds every predictor exactly once, paired with its own importance, and
\* numbers the rows 1..n in that order.
C6_RankingSorted ==
    Ranked =>
        /\ Len(ranking_df) = Len(predictors)
        /\ NonIncreasing
        /\ {ranking_df[k].Predictor : k \in 1..Len(ranking_df)} = PredictorSet
        /\ \A k \in 1..Len(ranking_df) :
              /\ ranking_df[k].Rank = k
              /\ ranking_df[k].Importance =
                     clf.feature_importances_[ColumnPos(ranking_df[k].Predictor)]

\* a ranking of importances that are neither all equal nor given in order
C6_Witness ==
    /\ Ranked
    /\ ranking_df[1].Importance > ranking_df[Len(predictors)].Importance
    /\ ranking_df[1].Predictor = "month"
    /\ ranking_df[2].Importance = ranking_df[3].Importance

----------------------------------------------------------------------------
(* Properties of the Evaluator, checked under SpecMetric *)

InUnit(r) == r[2] > 0 /\ 0 <= r[1] /\ r[1] <= r[2]

\* C7: every value of the Metric Record of stage 3.c and of every slot of the
\* loop's accumulation arrays lies in [0,1], whatever the predicted and the
\* true labels are.
C7_MetricsInUnitInterval ==
    /\ metrics3c # Unbound => \A m \in MetricNames : InUnit(metrics3c[m])
    /\ scores # Unbound =>
          \A m \in MetricNames : \A k \in 1..Len(scores[m]) : InUnit(scores[m][k])

\* a Test subset of droughts only, none of them predicted
C7_Witness ==
    /\ metrics3c # Unbound
    /\ Len(y_pred) >= 2
    /\ \A k \in 1..Len(y_pred) : y_pred[k] = 0 /\ y_test[k].value = 1

----------------------------------------------------------------------------
(* Properties of the Data Loader, checked under Spec *)

Loaded == file.kind = "parsed" /\ pc # "load"

CompleteLine(k) == \A c \in DOMAIN file.rows[k] : file.rows[k][c] # NaN

\* the frames and the series the stages after the Data Loader work on
FramesSeen ==
    {X, X_train, X_test} \cup (IF clf # Unbound THEN {clf.X_fit} ELSE {})

SeriesSeen ==
    {y, y_train, y_test} \cup (IF clf # Unbound THEN {clf.y_fit} ELSE {})

\* C8: on a file that parses the Data Loader raises nothing; the Dataset holds
\* exactly the lines of the file that have no missing value, unchanged and in
\* the file's order; and every frame or series a later stage works on is made
\* of rows of that Dataset.
C8_NoMissingValues ==
    /\ file.kind = "parsed" => ~(pc = "failed" /\ log = <<>>)
    /\ Loaded =>
          /\ \A k \in 1..Len(data) : ~HasNaN(data[k])
          /\ Indexes(data) = {k - 1 : k \in {j \in 1..Len(file.rows) : CompleteLine(j)}}
          /\ \A k \in 1..Len(data) : data[k].cells = file.rows[data[k].index + 1]
          /\ \A a, b \in 1..Len(data) : a < b => data[a].index < data[b].index
          /\ \A F \in FramesSeen : \A k \in 1..Len(F) :
                /\ F[k].index \in Indexes(data)
                /\ \A c \in DOMAIN F[k].cells :
                      /\ F[k].cells[c] # NaN
                      /\ F[k].cells[c] = file.rows[F[k].index + 1][c]
          /\ \A S \in SeriesSeen : \A k \in 1..Len(S) :
                /\ S[k].index \in Indexes(data)
                /\ S[k].value # NaN
                /\ S[k].value = file.rows[S[k].index + 1][target]

\* the whole run on a file whose second line has a missing value
C8_Witness ==
    /\ pc = "done"
    /\ Len(file.rows) = 4
    /\ ~CompleteLine(2)
    /\ Len(data) = 3
    /\ clf # Unbound

FileAccessErrors == {"FileNotFoundError", "ParserError"}

RunStages == {"split", "fit", "predict", "proba", "score", "importance", "mean"}

NoRunStage == \A k \in 1..Len(log) : log[k].stage \notin RunStages

\* the file does not follow section 6 of the specification
Malformed == file.kind = "unparseable" \/ (file.kind = "parsed" /\ file.columns # Columns)

\* C9 as stated: on an absent or malformed file the Data Loader fails with a
\* file access error, once, and nothing after it runs.
C9_LoaderRejectsBadFile ==
    ((file.kind = "absent" \/ Malformed) /\ pc # "load") =>
        /\ pc = "failed"
        /\ error \in FileAccessErrors
        /\ load_calls = 1
        /\ log = <<>>

\* C9 as amended: on an absent file or one read_csv cannot parse, the Data
\* Loader fails with read_csv's exception, read_csv is called once and no
\* stage runs after it; a file that parses but lacks a required column passes
\* the Data Loader and fails with KeyError in the cell that selects the
\* column, before any split, fit, predict, score, importance report or loop.
C9_LoaderRejectsUnreadableFile ==
    /\ load_calls <= 1
    /\ (file.kind \in {"absent", "unparseable"} /\ pc # "load") =>
          /\ pc = "failed"
          /\ error \in FileAccessErrors
          /\ log = <<>>
    /\ (file.kind = "parsed" /\ file.columns # Columns) =>
          /\ NoRunStage
          /\ pc \in {"load", "plot", "balance", "failed"}
          /\ pc = "failed" => (error = "KeyError" /\ log # <<>>)

\* the run has ended on a file that cannot be parsed
C9_Witness ==
    /\ file.kind = "unparseable"
    /\ pc = "failed"
    /\ load_calls = 1

----------------------------------------------------------------------------
(* Lifetime of the trained model, checked under Spec *)

\* C10: whenever the Predict button's callback has set the label, the model it
\* read is the one fitted in stage 3.a (500 trees, seed 42).
C10_CallbackReadsModel3a ==
    label_model # Unbound => label_model = <<n_estimators_3a, random_state_3a>>

----------------------------------------------------------------------------
(* Independence of the Stability Runner's iterations, checked under Spec *)

\* the split of iteration s recomputed from X, y and the seed alone, with the
\* global generator in state g
IterationSplit(s, g) == train_test_split(X, y, test_size_3e, s, g)

\* where the loop stands once iteration i has split, fitted, predicted, scored
SplitOfIterationDone ==
    i # None /\ pc \in {"loop_fit", "loop_predict", "loop_score", "loop_split", "loop_mean", "done"}
FitOfIterationDone ==
    i # None /\ pc \in {"loop_predict", "loop_score", "loop_split", "loop_mean", "done"}
PredictOfIterationDone ==
    i # None /\ pc \in {"loop_score", "loop_split", "loop_mean", "done"}
ScoreOfIterationDone ==
    i # None /\ pc \in {"loop_split", "loop_mean", "done"}

\* the split is that of X, y and seed i whatever the global generator holds;
\* the model is the fit of that split's Training subset with seed i; the
\* predictions are that model's on that split's Test subset; the record in
\* slot i is the score of those predictions against that split's labels
IterationFromSeedAlone ==
    SplitOfIterationDone =>
        /\ \A g \in 0..MaxEntropy :
              LET r == IterationSplit(seeds[i + 1], g)
              IN  /\ r.error = NoError
                  /\ <<X_train, X_test, y_train, y_test>> =
                         <<r.X_train, r.X_test, r.y_train, r.y_test>>
        /\ FitOfIterationDone => clf = fit(n_estimators_3e, seeds[i + 1], X_train, y_train)
        /\ PredictOfIterationDone => y_pred = predict(learner, clf, X_test)
        /\ ScoreOfIterationDone =>
              \A m \in MetricNames :
                  scores[m][i + 1] = MetricRecord(Values(y_test), y_pred)[m]

OnlyOwnSlotWritten ==
    (scores # Unbound /\ scores' # Unbound) =>
        \A m \in MetricNames : \A k \in 1..n_iterations :
            scores'[m][k] # scores[m][k] => (pc = "loop_score" /\ k = i + 1)

\* C11: the split, the model, the predictions and the Metric Record of
\* iteration i are those computed from X, y and seed i alone, whatever the
\* global generator's state and whatever stages 3.a-3.d and the earlier
\* iterations left in the kernel; and a step changes a slot of an accumulation
\* array only if it is the scoring of iteration i and the slot is slot i.
C11_IterationsIndependent ==
    [](IterationFromSeedAlone) /\ [][OnlyOwnSlotWritten]_vars

\* iteration 1 has stored a record that differs from iteration 0's; the slots
\* of the iterations to come are still zero
C11_Witness ==
    /\ pc = "loop_split"
    /\ i = 1
    /\ ~RatEq(scores["accuracy"][1], scores["accuracy"][2])
    /\ \A m \in MetricNames : \A k \in 3..n_iterations : scores[m][k] = Zero
    /\ Len(X_train) >= 3

----------------------------------------------------------------------------
(* Held-out rows, checked under Spec *)

\* where a top-to-bottom run stands once stage 3.a has fitted, 3.b has
\* predicted, 3.c has scored, and the loop has not yet split again
Fit3aDone ==
    i = None /\ pc \in {"predict3b", "proba3b", "widgets", "eval3c", "importance3d", "loop_init"}
Predict3bDone ==
    i = None /\ pc \in {"proba3b", "widgets", "eval3c", "importance3d", "loop_init"}
Evaluate3cDone ==
    i = None /\ pc \in {"importance3d", "loop_init"}

\* the model in clf was fitted on the Training subset the kernel holds, which
\* is the Training subset of the split run with these arguments, and shares
\* no row with that split's Test subset
FittedOnTrainingOf(args) ==
    /\ args \in DOMAIN split_memo
    /\ <<X_train, X_test, y_train, y_test>> = split_memo[args]
    /\ clf.X_fit = X_train
    /\ clf.y_fit = y_train
    /\ Indexes(clf.X_fit) \cap Indexes(X_test) = {}

\* the predictions are the model's on the Test subset, row by row
PredictedOnTest ==
    /\ Len(y_pred) = Len(X_test)
    /\ y_pred = predict(learner, clf, X_test)

\* the labels compared are those of the Test rows, in the rows' order
TruthOfTest ==
    /\ IndexSeq(y_test) = IndexSeq(X_test)
    /\ \A k \in 1..Len(y_test) :
          \E j \in 1..Len(data) :
              data[j].index = y_test[k].index /\ data[j].cells[target] = y_test[k].value

\* C12: in a top-to-bottom run the model of stage 3.a is fitted on exactly the
\* Training subset of the 70/30 split, its predictions and its Metric Record
\* are computed on exactly the Test subset of that split against the labels of
\* those rows; and the same holds for the model of each loop iteration and
\* the 80/20 split of that iteration.  No Test row is among the rows a model
\* was fitted on.
C12_HeldOutNeverTrained ==
    /\ Fit3aDone => FittedOnTrainingOf(<<test_size_3a, random_state_3a>>)
    /\ Predict3bDone => PredictedOnTest
    /\ Evaluate3cDone =>
          /\ TruthOfTest
          /\ metrics3c = MetricRecord(Values(y_test), y_pred)
    /\ FitOfIterationDone => FittedOnTrainingOf(<<test_size_3e, seeds[i + 1]>>)
    /\ PredictOfIterationDone => PredictedOnTest
    /\ ScoreOfIterationDone =>
          /\ TruthOfTest
          /\ \A m \in MetricNames :
                scores[m][i + 1] = MetricRecord(Values(y_test), y_pred)[m]

\* stage 3.c has scored a model fitted on two rows against two held-out rows,
\* one of them predicted wrongly
C12_Witness ==
    /\ Evaluate3cDone
    /\ Len(clf.X_fit) = 2
    /\ Len(X_test) = 2
    /\ RatEq(metrics3c["accuracy"], Ratio(1, 2))

----------------------------------------------------------------------------
(* Predictor/target separation, checked under Spec *)

\* the Dataset's value of a column in the row with this index label
DatasetValue(index, col) ==
    LET j == CHOOSE q \in 1..Len(data) : data[q].index = index
    IN  data[j].cells[col]

\* C13: every frame handed to fit, predict or predict_proba (X and its
\* subsets, the rows a model was fitted on, the row built from the widget
\* entries) has exactly the columns P, PET, ET, SM, SM_prev, DS, NDVI, enso,
\* month, which are the model's features in that order; drought, lon and lat
\* are not among them; and every label vector (y and its subsets, the labels
\* a model was fitted on) holds the drought column of its rows.
C13_PredictorTargetSeparation ==
    /\ \A F \in FramesSeen : \A k \in 1..Len(F) :
          /\ DOMAIN F[k].cells = {"P", "PET", "ET", "SM", "SM_prev", "DS", "NDVI", "enso", "month"}
          /\ {target, "lon", "lat"} \cap DOMAIN F[k].cells = {}
    /\ clf # Unbound =>
          clf.feature_names_in_ = <<"P", "PET", "ET", "SM", "SM_prev", "DS", "NDVI", "enso", "month">>
    /\ (clf # Unbound /\ entries # <<>>) =>
          DOMAIN InputCells(clf, entry_values(entries)) =
              {clf.feature_names_in_[k] : k \in 1..Len(clf.feature_names_in_)}
    /\ \A S \in SeriesSeen : \A k \in 1..Len(S) :
          /\ S[k].index \in Indexes(data)
          /\ S[k].value = DatasetValue(S[k].index, "drought")

\* the first loop iteration has fitted on three rows of a Dataset whose rows
\* carry coordinates and labels of both classes besides the predictors
C13_Witness ==
    /\ pc = "loop_predict"
    /\ i = 0
    /\ Len(clf.X_fit) = 3
    /\ Len(X_test) = 1
    /\ \A k \in 1..Len(data) : {"lon", "lat", target} \subseteq DOMAIN data[k].cells
    /\ {data[k].cells[target] : k \in 1..Len(data)} = {0, 1}

----------------------------------------------------------------------------
(* The Dataset after the Data Loader, checked under Spec *)

DatasetUntouched ==
    /\ pc # "load" => data' = data
    /\ file' = file

\* C14: no step after the Data Loader (the map cell, the class-balance cell,
\* the splits, fits, predictions, scorings, the importance report, the loop,
\* a click on Predict) changes a row or a value of the Dataset, and no step
\* changes the file on disk.
C14_DatasetImmutable == [][DatasetUntouched]_vars

\* the run has ended and Predict was clicked; the Dataset is still the three
\* complete lines of the file's four, two of them at the same location
C14_Witness ==
    /\ pc = "done"
    /\ label_model # Unbound
    /\ Len(file.rows) = 4
    /\ data = dropna(read_csv(file))
    /\ Len(data) = 3
    /\ Len(drop_duplicates(Project(data, {"lon", "lat"}))) = 2

----------------------------------------------------------------------------
(* The negative-importance conclusion, checked under SpecNote *)

Reported == importance_note # ""

\* C15: the Importance Reporter prints the "negative importance values do not
\* provide any predictability" conclusion exactly when some importance is
\* below zero; when every importance is zero or more, an importance of exactly
\* zero included, it prints that all predictors provide some predictability.
C15_NegativeNoteIffNegative ==
    Reported =>
        /\ importance_note \in {"negative", "all_predictive"}
        /\ importance_note = "negative" <=>
              \E k \in 1..Len(variable_importance) : variable_importance[k] < 0
        /\ (\A k \in 1..Len(variable_importance) : variable_importance[k] >= 0) =>
              importance_note = "all_predictive"

\* no importance is negative, one is exactly zero, one is positive
C15_Witness ==
    /\ Reported
    /\ importance_note = "all_predictive"
    /\ \E k \in 1..Len(variable_importance) : variable_importance[k] = 0
    /\ \E k \in 1..Len(variable_importance) : variable_importance[k] > 0

----------------------------------------------------------------------------
(* The Predict button, checked under SpecWidget *)

\* the row the form describes: each predictor with the value of the field
\* that carries its name
TypedRow ==
    [c \in PredictorSet |->
        entries[CHOOSE k \in 1..Len(entries) : entries[k].predictor = c].value]

ClickReadsFormInOrder ==
    PredictClick =>
        LET v == entry_values(entries)
        IN  /\ Len(v) = 9
            /\ Len(entries) = 9
            /\ \A k \in 1..Len(entries) :
                  /\ v[k] = entries[k].value
                  /\ entries[k].predictor = clf.feature_names_in_[k]
            /\ label_model' # Unbound
            /\ result_label' = Format2f(Proba1(learner, clf, TypedRow))

====
